---- MODULE Spec2Model ----
(***************************************************************************)
(* A model of jst_clock.py: the JSTClock class that draws an analog clock  *)
(* and two rolling CPU / memory graphs on a terminal.                      *)
(*                                                                         *)
(* Conventions.                                                            *)
(*  - A text line is a sequence of characters; a character is a one-token  *)
(*    string.  The non-ASCII glyphs of the source are named tokens (see    *)
(*    the glyph definitions), and the ESC byte of an ANSI sequence is the  *)
(*    token "ESC"; every token counts as one character, as len() counts a  *)
(*    code point.                                                          *)
(*  - A percentage is kept in tenths of a percent (455 is 45.5), the       *)
(*    resolution psutil reports.  For these values the float expression    *)
(*    int((v / 100) * 11) equals the integer quotient (11 * t) \div 1000.  *)
(*  - A grid is a function row -> column -> character, rows and columns    *)
(*    counted from 0 as the source's list indices are.                     *)
(***************************************************************************)
EXTENDS Integers, Sequences, FiniteSets, TLC

VARIABLES
    cpu_history,      \* self.cpu_history, oldest first
    memory_history,   \* self.memory_history, oldest first
    readings,         \* history variable: every <<cpu, memory>> pair psutil has returned
    tick,             \* display_split_screen: its locals at the last call
    stdout,           \* display_split_screen: the lines printed by the last call
    line,             \* draw_line: the arguments and locals of the call in progress
    clock,            \* draw_line: the grid it is drawing on
    gcall             \* create_graph: the argument and the result of a call

vars == <<cpu_history, memory_history, readings, tick, stdout, line, clock, gcall>>

(***************************************************************************)
(* Bounds of the model.                                                    *)
(***************************************************************************)
MaxCalls == 45    \* get_system_stats calls explored by SpecStats
MaxBusy == 2      \* of those, the calls whose reading is not the idle one
MaxTicks == 3     \* display_split_screen calls explored by Spec
Margin == 1       \* how far outside the grid draw_line's endpoints may lie
MaxExtra == 1     \* create_graph: zero histories up to graph_width + MaxExtra long

(***************************************************************************)
(* Constants of JSTClock.__init__.                                         *)
(***************************************************************************)
clock_radius == 5
clock_width == clock_radius * 2 + 3
clock_height == clock_radius * 2 + 3
center_x == clock_width \div 2
center_y == clock_height \div 2
graph_width == 40
graph_height == 12

\* ANSI colour codes, character by character.
PURPLE == <<"ESC", "[", "9", "5", "m">>
BRIGHT_PURPLE == <<"ESC", "[", "3", "5", "m">>
RESET == <<"ESC", "[", "0", "m">>
BOLD == <<"ESC", "[", "1", "m">>

\* Glyphs of the source that are not ASCII.
BlackCircle == "U+25CF"      \* the rim, the centre dot and the plot marker
LightVertical == "U+2502"    \* the second hand, the graph's axis and runs, the separator
LightHorizontal == "U+2500"  \* the minute hand and the graph's horizontal axis
HeavyHorizontal == "U+2501"  \* the hour hand

(***************************************************************************)
(* General helpers.                                                        *)
(***************************************************************************)
Abs(n) == IF n < 0 THEN -n ELSE n

Min2(a, b) == IF a < b THEN a ELSE b

Max2(a, b) == IF a > b THEN a ELSE b

\* [c] * n
Repeat(c, n) == [i \in 1..n |-> c]

(***************************************************************************)
(* collections.deque(maxlen = n).append(v): a full deque drops its oldest  *)
(* (leftmost) entry to make room.                                          *)
(***************************************************************************)
DequeAppendNoEvict(d, maxlen, v) == Append(d, v)

DequeAppendDropNewest(d, maxlen, v) ==
    IF Len(d) >= maxlen THEN Append(SubSeq(d, 1, Len(d) - 1), v) ELSE Append(d, v)

DequeAppend(d, maxlen, v) ==
    IF Len(d) >= maxlen THEN Append(Tail(d), v) ELSE Append(d, v)

\* __init__, lines 40-46: both deques, then graph_width zeros appended to each.
RECURSIVE Prefill(_, _)
Prefill(d, n) == IF n = 0 THEN d ELSE Prefill(DequeAppend(d, graph_width, 0), n - 1)

InitialHistory == Prefill(<<>>, graph_width)

(***************************************************************************)
(* psutil's readings: <<cpu percent, memory percent>>, in tenths.          *)
(***************************************************************************)
IdleReading == <<0, 0>>

Readings == {IdleReading, <<455, 1000>>, <<1000, 46>>}

BusyCount(rs) == Cardinality({i \in DOMAIN rs : rs[i] # IdleReading})

(***************************************************************************)
(* Python list indexing, as clock[y][x] = char uses it: an index in        *)
(* 0..n-1 is itself, an index in -n..-1 counts from the end, and any other *)
(* index raises IndexError (modelled as -1).                               *)
(***************************************************************************)
ListIndex(n, i) ==
    IF i >= 0 /\ i < n THEN i
    ELSE IF i < 0 /\ i >= -n THEN i + n
    ELSE -1

GridHeight(grid) == Cardinality(DOMAIN grid)

GridWidth(grid) == Cardinality(DOMAIN grid[0])

\* grid[y][x] = c; raised is TRUE when the assignment raises IndexError.
GridStore(grid, x, y, c) ==
    LET r == ListIndex(GridHeight(grid), y)
        k == ListIndex(GridWidth(grid), x)
    IN  IF r < 0 \/ k < 0
        THEN [grid |-> grid, raised |-> TRUE]
        ELSE [grid |-> [grid EXCEPT ![r][k] = c], raised |-> FALSE]

\* [[" " for _ in range(width)] for _ in range(height)]
BlankGrid(width, height) == [r \in 0..(height - 1) |-> [k \in 0..(width - 1) |-> " "]]

\* "".join(row)
JoinRow(row) == [k \in 1..Cardinality(DOMAIN row) |-> row[k - 1]]

(***************************************************************************)
(* draw_line, lines 71-95.                                                 *)
(***************************************************************************)
\* line 83: the bounds test that guards the write.
InGridUnguarded(x, y) == TRUE

InGrid(x, y) == 0 <= y /\ y < clock_height /\ 0 <= x /\ x < clock_width

\* lines 75-80: the locals before the loop.
LineStart(x1, y1, x2, y2, char) ==
    [pc |-> "loop", x1 |-> x1, y1 |-> y1, x2 |-> x2, y2 |-> y2, char |-> char,
     dx |-> Abs(x2 - x1), dy |-> Abs(y2 - y1), x |-> x1, y |-> y1,
     x_inc |-> IF x1 < x2 THEN 1 ELSE -1,
     y_inc |-> IF y1 < y2 THEN 1 ELSE -1,
     error |-> Abs(x2 - x1) - Abs(y2 - y1)]

\* The variant of LineStamp that indexes the grid column first.
LineStampSwapped(grid, l) ==
    IF InGrid(l.x, l.y)
    THEN GridStore(grid, l.y, l.x, l.char)
    ELSE [grid |-> grid, raised |-> FALSE]

\* lines 83-84: stamp the current cell when it lies in the grid.
LineStamp(grid, l) ==
    IF InGrid(l.x, l.y)
    THEN GridStore(grid, l.x, l.y, l.char)
    ELSE [grid |-> grid, raised |-> FALSE]

\* The variant of LineAdvance that tests e2 against dy instead of -dy.
LineAdvanceWrongTest(l) ==
    IF l.x = l.x2 /\ l.y = l.y2
    THEN [l EXCEPT !.pc = "done"]
    ELSE LET e2 == 2 * l.error
             stepx == e2 > l.dy
             stepy == e2 < l.dx
         IN  [l EXCEPT !.error = l.error - (IF stepx THEN l.dy ELSE 0)
                                         + (IF stepy THEN l.dx ELSE 0),
                       !.x = IF stepx THEN l.x + l.x_inc ELSE l.x,
                       !.y = IF stepy THEN l.y + l.y_inc ELSE l.y]

\* lines 86-95: stop at the endpoint, else step x and / or y by the error term.
LineAdvance(l) ==
    IF l.x = l.x2 /\ l.y = l.y2
    THEN [l EXCEPT !.pc = "done"]
    ELSE LET e2 == 2 * l.error
             stepx == e2 > -l.dy
             stepy == e2 < l.dx
         IN  [l EXCEPT !.error = l.error - (IF stepx THEN l.dy ELSE 0)
                                         + (IF stepy THEN l.dx ELSE 0),
                       !.x = IF stepx THEN l.x + l.x_inc ELSE l.x,
                       !.y = IF stepy THEN l.y + l.y_inc ELSE l.y]

\* The whole call, for the callers that use its result: the grid after the loop.
RECURSIVE LineRun(_, _)
LineRun(grid, l) ==
    LET st == LineStamp(grid, l)
        nl == LineAdvance(l)
    IN  IF st.raised \/ nl.pc = "done" THEN st.grid ELSE LineRun(st.grid, nl)

draw_line(grid, x1, y1, x2, y2, char) == LineRun(grid, LineStart(x1, y1, x2, y2, char))

(***************************************************************************)
(* create_clock_face, lines 177-245.                                       *)
(***************************************************************************)
\* line 190: abs(sqrt(dx*dx + dy*dy) - (clock_radius - 1)) < 0.6, scaled by 5 and squared.
OnRim(i, j) ==
    LET dx == j - center_x
        dy == i - center_y
        d2 == dx * dx + dy * dy
        lo == 5 * (clock_radius - 1) - 3
        hi == 5 * (clock_radius - 1) + 3
    IN  25 * d2 > lo * lo /\ 25 * d2 < hi * hi

\* lines 179-191: the blank grid with the rim on it.
RimGrid ==
    [i \in 0..(clock_height - 1) |->
        [j \in 0..(clock_width - 1) |-> IF OnRim(i, j) THEN BlackCircle ELSE " "]]

\* lines 196-200 for h = 0, 3, 6, 9: int((clock_radius - 2) * cos / sin(radians(h * 30 - 90))).
MarkOffset(h) ==
    CASE h = 0 -> <<0, -(clock_radius - 2)>>
      [] h = 3 -> <<clock_radius - 2, 0>>
      [] h = 6 -> <<0, clock_radius - 2>>
      [] h = 9 -> <<-(clock_radius - 2), 0>>

\* lines 202-208: one hour mark written on the grid.
PutMark(grid, h) ==
    LET mark_x == center_x + MarkOffset(h)[1]
        mark_y == center_y + MarkOffset(h)[2]
    IN  IF ~(0 <= mark_y /\ mark_y < clock_height /\ 0 <= mark_x /\ mark_x < clock_width)
        THEN grid
        ELSE IF h = 0
        THEN LET g1 == [grid EXCEPT ![mark_y][mark_x] = "1"]
             IN  IF mark_x + 1 < clock_width
                 THEN [g1 EXCEPT ![mark_y][mark_x + 1] = "2"]
                 ELSE g1
        ELSE [grid EXCEPT ![mark_y][mark_x] =
                  CASE h = 3 -> "3" [] h = 6 -> "6" [] h = 9 -> "9"]

\* lines 179-208: the dial, before the hands.
Dial == PutMark(PutMark(PutMark(PutMark(RimGrid, 0), 3), 6), 9)

(***************************************************************************)
(* The hands' endpoints relative to the centre, as the float expressions   *)
(* of lines 216-238 evaluate (IEEE doubles, int() truncating toward zero). *)
(* HourHandOffset is indexed by (hour % 12) * 60 + minute + 1, the angle   *)
(* in half degrees; the other two by minute + 1 and second + 1.            *)
(***************************************************************************)
HourHandOffset ==
    <<<<0, -2>>, <<0, -1>>, <<0, -1>>, <<0, -1>>, <<0, -1>>, <<0, -1>>, <<0, -1>>, <<0, -1>>, <<0, -1>>, <<0, -1>>,
      <<0, -1>>, <<0, -1>>, <<0, -1>>, <<0, -1>>, <<0, -1>>, <<0, -1>>, <<0, -1>>, <<0, -1>>, <<0, -1>>, <<0, -1>>,
      <<0, -1>>, <<0, -1>>, <<0, -1>>, <<0, -1>>, <<0, -1>>, <<0, -1>>, <<0, -1>>, <<0, -1>>, <<0, -1>>, <<0, -1>>,
      <<0, -1>>, <<0, -1>>, <<0, -1>>, <<0, -1>>, <<0, -1>>, <<0, -1>>, <<0, -1>>, <<0, -1>>, <<0, -1>>, <<0, -1>>,
      <<0, -1>>, <<0, -1>>, <<0, -1>>, <<0, -1>>, <<0, -1>>, <<0, -1>>, <<0, -1>>, <<0, -1>>, <<0, -1>>, <<0, -1>>,
      <<0, -1>>, <<0, -1>>, <<0, -1>>, <<0, -1>>, <<0, -1>>, <<0, -1>>, <<0, -1>>, <<0, -1>>, <<0, -1>>, <<0, -1>>,
      <<1, -1>>, <<1, -1>>, <<1, -1>>, <<1, -1>>, <<1, -1>>, <<1, -1>>, <<1, -1>>, <<1, -1>>, <<1, -1>>, <<1, -1>>,
      <<1, -1>>, <<1, -1>>, <<1, -1>>, <<1, -1>>, <<1, -1>>, <<1, -1>>, <<1, -1>>, <<1, -1>>, <<1, -1>>, <<1, -1>>,
      <<1, -1>>, <<1, -1>>, <<1, -1>>, <<1, -1>>, <<1, -1>>, <<1, -1>>, <<1, -1>>, <<1, -1>>, <<1, -1>>, <<1, -1>>,
      <<1, -1>>, <<1, -1>>, <<1, -1>>, <<1, -1>>, <<1, -1>>, <<1, -1>>, <<1, -1>>, <<1, -1>>, <<1, -1>>, <<1, -1>>,
      <<1, -1>>, <<1, -1>>, <<1, -1>>, <<1, -1>>, <<1, -1>>, <<1, -1>>, <<1, -1>>, <<1, -1>>, <<1, -1>>, <<1, -1>>,
      <<1, -1>>, <<1, -1>>, <<1, -1>>, <<1, -1>>, <<1, -1>>, <<1, -1>>, <<1, -1>>, <<1, -1>>, <<1, -1>>, <<1, -1>>,
      <<1, 0>>, <<1, 0>>, <<1, 0>>, <<1, 0>>, <<1, 0>>, <<1, 0>>, <<1, 0>>, <<1, 0>>, <<1, 0>>, <<1, 0>>,
      <<1, 0>>, <<1, 0>>, <<1, 0>>, <<1, 0>>, <<1, 0>>, <<1, 0>>, <<1, 0>>, <<1, 0>>, <<1, 0>>, <<1, 0>>,
      <<1, 0>>, <<1, 0>>, <<1, 0>>, <<1, 0>>, <<1, 0>>, <<1, 0>>, <<1, 0>>, <<1, 0>>, <<1, 0>>, <<1, 0>>,
      <<1, 0>>, <<1, 0>>, <<1, 0>>, <<1, 0>>, <<1, 0>>, <<1, 0>>, <<1, 0>>, <<1, 0>>, <<1, 0>>, <<1, 0>>,
      <<1, 0>>, <<1, 0>>, <<1, 0>>, <<1, 0>>, <<1, 0>>, <<1, 0>>, <<1, 0>>, <<1, 0>>, <<1, 0>>, <<1, 0>>,
      <<1, 0>>, <<1, 0>>, <<1, 0>>, <<1, 0>>, <<1, 0>>, <<1, 0>>, <<1, 0>>, <<1, 0>>, <<1, 0>>, <<1, 0>>,
      <<2, 0>>, <<1, 0>>, <<1, 0>>, <<1, 0>>, <<1, 0>>, <<1, 0>>, <<1, 0>>, <<1, 0>>, <<1, 0>>, <<1, 0>>,
      <<1, 0>>, <<1, 0>>, <<1, 0>>, <<1, 0>>, <<1, 0>>, <<1, 0>>, <<1, 0>>, <<1, 0>>, <<1, 0>>, <<1, 0>>,
      <<1, 0>>, <<1, 0>>, <<1, 0>>, <<1, 0>>, <<1, 0>>, <<1, 0>>, <<1, 0>>, <<1, 0>>, <<1, 0>>, <<1, 0>>,
      <<1, 0>>, <<1, 0>>, <<1, 0>>, <<1, 0>>, <<1, 0>>, <<1, 0>>, <<1, 0>>, <<1, 0>>, <<1, 0>>, <<1, 0>>,
      <<1, 0>>, <<1, 0>>, <<1, 0>>, <<1, 0>>, <<1, 0>>, <<1, 0>>, <<1, 0>>, <<1, 0>>, <<1, 0>>, <<1, 0>>,
      <<1, 0>>, <<1, 0>>, <<1, 0>>, <<1, 0>>, <<1, 0>>, <<1, 0>>, <<1, 0>>, <<1, 0>>, <<1, 0>>, <<1, 0>>,
      <<1, 0>>, <<1, 1>>, <<1, 1>>, <<1, 1>>, <<1, 1>>, <<1, 1>>, <<1, 1>>, <<1, 1>>, <<1, 1>>, <<1, 1>>,
      <<1, 1>>, <<1, 1>>, <<1, 1>>, <<1, 1>>, <<1, 1>>, <<1, 1>>, <<1, 1>>, <<1, 1>>, <<1, 1>>, <<1, 1>>,
      <<1, 1>>, <<1, 1>>, <<1, 1>>, <<1, 1>>, <<1, 1>>, <<1, 1>>, <<1, 1>>, <<1, 1>>, <<1, 1>>, <<1, 1>>,
      <<1, 1>>, <<1, 1>>, <<1, 1>>, <<1, 1>>, <<1, 1>>, <<1, 1>>, <<1, 1>>, <<1, 1>>, <<1, 1>>, <<1, 1>>,
      <<1, 1>>, <<1, 1>>, <<1, 1>>, <<1, 1>>, <<1, 1>>, <<1, 1>>, <<1, 1>>, <<1, 1>>, <<1, 1>>, <<1, 1>>,
      <<1, 1>>, <<1, 1>>, <<1, 1>>, <<1, 1>>, <<1, 1>>, <<1, 1>>, <<1, 1>>, <<1, 1>>, <<1, 1>>, <<1, 1>>,
      <<1, 1>>, <<0, 1>>, <<0, 1>>, <<0, 1>>, <<0, 1>>, <<0, 1>>, <<0, 1>>, <<0, 1>>, <<0, 1>>, <<0, 1>>,
      <<0, 1>>, <<0, 1>>, <<0, 1>>, <<0, 1>>, <<0, 1>>, <<0, 1>>, <<0, 1>>, <<0, 1>>, <<0, 1>>, <<0, 1>>,
      <<0, 1>>, <<0, 1>>, <<0, 1>>, <<0, 1>>, <<0, 1>>, <<0, 1>>, <<0, 1>>, <<0, 1>>, <<0, 1>>, <<0, 1>>,
      <<0, 1>>, <<0, 1>>, <<0, 1>>, <<0, 1>>, <<0, 1>>, <<0, 1>>, <<0, 1>>, <<0, 1>>, <<0, 1>>, <<0, 1>>,
      <<0, 1>>, <<0, 1>>, <<0, 1>>, <<0, 1>>, <<0, 1>>, <<0, 1>>, <<0, 1>>, <<0, 1>>, <<0, 1>>, <<0, 1>>,
      <<0, 1>>, <<0, 1>>, <<0, 1>>, <<0, 1>>, <<0, 1>>, <<0, 1>>, <<0, 1>>, <<0, 1>>, <<0, 1>>, <<0, 1>>,
      <<0, 2>>, <<0, 1>>, <<0, 1>>, <<0, 1>>, <<0, 1>>, <<0, 1>>, <<0, 1>>, <<0, 1>>, <<0, 1>>, <<0, 1>>,
      <<0, 1>>, <<0, 1>>, <<0, 1>>, <<0, 1>>, <<0, 1>>, <<0, 1>>, <<0, 1>>, <<0, 1>>, <<0, 1>>, <<0, 1>>,
      <<0, 1>>, <<0, 1>>, <<0, 1>>, <<0, 1>>, <<0, 1>>, <<0, 1>>, <<0, 1>>, <<0, 1>>, <<0, 1>>, <<0, 1>>,
      <<0, 1>>, <<0, 1>>, <<0, 1>>, <<0, 1>>, <<0, 1>>, <<0, 1>>, <<0, 1>>, <<0, 1>>, <<0, 1>>, <<0, 1>>,
      <<0, 1>>, <<0, 1>>, <<0, 1>>, <<0, 1>>, <<0, 1>>, <<0, 1>>, <<0, 1>>, <<0, 1>>, <<0, 1>>, <<0, 1>>,
      <<0, 1>>, <<0, 1>>, <<0, 1>>, <<0, 1>>, <<0, 1>>, <<0, 1>>, <<0, 1>>, <<0, 1>>, <<0, 1>>, <<0, 1>>,
      <<0, 1>>, <<-1, 1>>, <<-1, 1>>, <<-1, 1>>, <<-1, 1>>, <<-1, 1>>, <<-1, 1>>, <<-1, 1>>, <<-1, 1>>, <<-1, 1>>,
      <<-1, 1>>, <<-1, 1>>, <<-1, 1>>, <<-1, 1>>, <<-1, 1>>, <<-1, 1>>, <<-1, 1>>, <<-1, 1>>, <<-1, 1>>, <<-1, 1>>,
      <<-1, 1>>, <<-1, 1>>, <<-1, 1>>, <<-1, 1>>, <<-1, 1>>, <<-1, 1>>, <<-1, 1>>, <<-1, 1>>, <<-1, 1>>, <<-1, 1>>,
      <<-1, 1>>, <<-1, 1>>, <<-1, 1>>, <<-1, 1>>, <<-1, 1>>, <<-1, 1>>, <<-1, 1>>, <<-1, 1>>, <<-1, 1>>, <<-1, 1>>,
      <<-1, 1>>, <<-1, 1>>, <<-1, 1>>, <<-1, 1>>, <<-1, 1>>, <<-1, 1>>, <<-1, 1>>, <<-1, 1>>, <<-1, 1>>, <<-1, 1>>,
      <<-1, 1>>, <<-1, 1>>, <<-1, 1>>, <<-1, 1>>, <<-1, 1>>, <<-1, 1>>, <<-1, 1>>, <<-1, 1>>, <<-1, 1>>, <<-1, 1>>,
      <<-1, 0>>, <<-1, 0>>, <<-1, 0>>, <<-1, 0>>, <<-1, 0>>, <<-1, 0>>, <<-1, 0>>, <<-1, 0>>, <<-1, 0>>, <<-1, 0>>,
      <<-1, 0>>, <<-1, 0>>, <<-1, 0>>, <<-1, 0>>, <<-1, 0>>, <<-1, 0>>, <<-1, 0>>, <<-1, 0>>, <<-1, 0>>, <<-1, 0>>,
      <<-1, 0>>, <<-1, 0>>, <<-1, 0>>, <<-1, 0>>, <<-1, 0>>, <<-1, 0>>, <<-1, 0>>, <<-1, 0>>, <<-1, 0>>, <<-1, 0>>,
      <<-1, 0>>, <<-1, 0>>, <<-1, 0>>, <<-1, 0>>, <<-1, 0>>, <<-1, 0>>, <<-1, 0>>, <<-1, 0>>, <<-1, 0>>, <<-1, 0>>,
      <<-1, 0>>, <<-1, 0>>, <<-1, 0>>, <<-1, 0>>, <<-1, 0>>, <<-1, 0>>, <<-1, 0>>, <<-1, 0>>, <<-1, 0>>, <<-1, 0>>,
      <<-1, 0>>, <<-1, 0>>, <<-1, 0>>, <<-1, 0>>, <<-1, 0>>, <<-1, 0>>, <<-1, 0>>, <<-1, 0>>, <<-1, 0>>, <<-1, 0>>,
      <<-2, 0>>, <<-1, 0>>, <<-1, 0>>, <<-1, 0>>, <<-1, 0>>, <<-1, 0>>, <<-1, 0>>, <<-1, 0>>, <<-1, 0>>, <<-1, 0>>,
      <<-1, 0>>, <<-1, 0>>, <<-1, 0>>, <<-1, 0>>, <<-1, 0>>, <<-1, 0>>, <<-1, 0>>, <<-1, 0>>, <<-1, 0>>, <<-1, 0>>,
      <<-1, 0>>, <<-1, 0>>, <<-1, 0>>, <<-1, 0>>, <<-1, 0>>, <<-1, 0>>, <<-1, 0>>, <<-1, 0>>, <<-1, 0>>, <<-1, 0>>,
      <<-1, 0>>, <<-1, 0>>, <<-1, 0>>, <<-1, 0>>, <<-1, 0>>, <<-1, 0>>, <<-1, 0>>, <<-1, 0>>, <<-1, 0>>, <<-1, 0>>,
      <<-1, 0>>, <<-1, 0>>, <<-1, 0>>, <<-1, 0>>, <<-1, 0>>, <<-1, 0>>, <<-1, 0>>, <<-1, 0>>, <<-1, 0>>, <<-1, 0>>,
      <<-1, 0>>, <<-1, 0>>, <<-1, 0>>, <<-1, 0>>, <<-1, 0>>, <<-1, 0>>, <<-1, 0>>, <<-1, 0>>, <<-1, 0>>, <<-1, 0>>,
      <<-1, -1>>, <<-1, -1>>, <<-1, -1>>, <<-1, -1>>, <<-1, -1>>, <<-1, -1>>, <<-1, -1>>, <<-1, -1>>, <<-1, -1>>, <<-1, -1>>,
      <<-1, -1>>, <<-1, -1>>, <<-1, -1>>, <<-1, -1>>, <<-1, -1>>, <<-1, -1>>, <<-1, -1>>, <<-1, -1>>, <<-1, -1>>, <<-1, -1>>,
      <<-1, -1>>, <<-1, -1>>, <<-1, -1>>, <<-1, -1>>, <<-1, -1>>, <<-1, -1>>, <<-1, -1>>, <<-1, -1>>, <<-1, -1>>, <<-1, -1>>,
      <<-1, -1>>, <<-1, -1>>, <<-1, -1>>, <<-1, -1>>, <<-1, -1>>, <<-1, -1>>, <<-1, -1>>, <<-1, -1>>, <<-1, -1>>, <<-1, -1>>,
      <<-1, -1>>, <<-1, -1>>, <<-1, -1>>, <<-1, -1>>, <<-1, -1>>, <<-1, -1>>, <<-1, -1>>, <<-1, -1>>, <<-1, -1>>, <<-1, -1>>,
      <<-1, -1>>, <<-1, -1>>, <<-1, -1>>, <<-1, -1>>, <<-1, -1>>, <<-1, -1>>, <<-1, -1>>, <<-1, -1>>, <<-1, -1>>, <<-1, -1>>,
      <<-1, -1>>, <<0, -1>>, <<0, -1>>, <<0, -1>>, <<0, -1>>, <<0, -1>>, <<0, -1>>, <<0, -1>>, <<0, -1>>, <<0, -1>>,
      <<0, -1>>, <<0, -1>>, <<0, -1>>, <<0, -1>>, <<0, -1>>, <<0, -1>>, <<0, -1>>, <<0, -1>>, <<0, -1>>, <<0, -1>>,
      <<0, -1>>, <<0, -1>>, <<0, -1>>, <<0, -1>>, <<0, -1>>, <<0, -1>>, <<0, -1>>, <<0, -1>>, <<0, -1>>, <<0, -1>>,
      <<0, -1>>, <<0, -1>>, <<0, -1>>, <<0, -1>>, <<0, -1>>, <<0, -1>>, <<0, -1>>, <<0, -1>>, <<0, -1>>, <<0, -1>>,
      <<0, -1>>, <<0, -1>>, <<0, -1>>, <<0, -1>>, <<0, -1>>, <<0, -1>>, <<0, -1>>, <<0, -1>>, <<0, -1>>, <<0, -1>>,
      <<0, -1>>, <<0, -1>>, <<0, -1>>, <<0, -1>>, <<0, -1>>, <<0, -1>>, <<0, -1>>, <<0, -1>>, <<0, -1>>, <<0, -1>>>>

MinuteHandOffset ==
    <<<<0, -3>>, <<0, -3>>, <<0, -3>>, <<1, -3>>, <<1, -3>>, <<1, -3>>, <<2, -2>>, <<2, -2>>, <<2, -2>>, <<2, -2>>,
      <<3, -1>>, <<3, -1>>, <<3, -1>>, <<3, 0>>, <<3, 0>>, <<3, 0>>, <<3, 0>>, <<3, 0>>, <<3, 1>>, <<3, 1>>,
      <<3, 1>>, <<2, 2>>, <<2, 2>>, <<2, 2>>, <<2, 2>>, <<1, 3>>, <<1, 3>>, <<1, 3>>, <<0, 3>>, <<0, 3>>,
      <<0, 3>>, <<0, 3>>, <<0, 3>>, <<-1, 3>>, <<-1, 3>>, <<-1, 3>>, <<-2, 2>>, <<-2, 2>>, <<-2, 2>>, <<-2, 2>>,
      <<-3, 1>>, <<-3, 1>>, <<-3, 1>>, <<-3, 0>>, <<-3, 0>>, <<-3, 0>>, <<-3, 0>>, <<-3, 0>>, <<-3, -1>>, <<-3, -1>>,
      <<-3, -1>>, <<-2, -2>>, <<-2, -2>>, <<-2, -2>>, <<-2, -2>>, <<-1, -3>>, <<-1, -3>>, <<-1, -3>>, <<0, -3>>, <<0, -3>>>>

SecondHandOffset ==
    <<<<0, -4>>, <<0, -3>>, <<0, -3>>, <<1, -3>>, <<1, -3>>, <<2, -3>>, <<2, -3>>, <<2, -2>>, <<2, -2>>, <<3, -2>>,
      <<3, -1>>, <<3, -1>>, <<3, -1>>, <<3, 0>>, <<3, 0>>, <<4, 0>>, <<3, 0>>, <<3, 0>>, <<3, 1>>, <<3, 1>>,
      <<3, 1>>, <<3, 2>>, <<2, 2>>, <<2, 2>>, <<2, 3>>, <<2, 3>>, <<1, 3>>, <<1, 3>>, <<0, 3>>, <<0, 3>>,
      <<0, 4>>, <<0, 3>>, <<0, 3>>, <<-1, 3>>, <<-1, 3>>, <<-1, 3>>, <<-2, 3>>, <<-2, 2>>, <<-2, 2>>, <<-3, 2>>,
      <<-3, 1>>, <<-3, 1>>, <<-3, 1>>, <<-3, 0>>, <<-3, 0>>, <<-4, 0>>, <<-3, 0>>, <<-3, 0>>, <<-3, -1>>, <<-3, -1>>,
      <<-3, -2>>, <<-3, -2>>, <<-2, -2>>, <<-2, -2>>, <<-2, -3>>, <<-2, -3>>, <<-1, -3>>, <<-1, -3>>, <<0, -3>>, <<0, -3>>>>

\* lines 210-245: the three hands and the centre dot on the dial, joined to strings.
create_clock_face(hour, minute, second) ==
    LET ho == HourHandOffset[(hour % 12) * 60 + minute + 1]
        mo == MinuteHandOffset[minute + 1]
        so == SecondHandOffset[second + 1]
        g1 == draw_line(Dial, center_x, center_y,
                        center_x + ho[1], center_y + ho[2], HeavyHorizontal)
        g2 == draw_line(g1, center_x, center_y,
                        center_x + mo[1], center_y + mo[2], LightHorizontal)
        g3 == draw_line(g2, center_x, center_y,
                        center_x + so[1], center_y + so[2], LightVertical)
        g4 == [g3 EXCEPT ![center_y][center_x] = BlackCircle]
    IN  [i \in 1..clock_height |-> JoinRow(g4[i - 1])]

(***************************************************************************)
(* Number formatting.                                                      *)
(***************************************************************************)
Digit(d) == <<"0", "1", "2", "3", "4", "5", "6", "7", "8", "9">>[d + 1]

\* str(n) for n >= 0
RECURSIVE Decimal(_)
Decimal(n) == IF n < 10 THEN <<Digit(n)>> ELSE Decimal(n \div 10) \o <<Digit(n % 10)>>

\* str.ljust(width): blanks are added on the right, and nothing is cut.
LJust(s, width) == IF Len(s) >= width THEN s ELSE s \o Repeat(" ", width - Len(s))

\* str.rstrip(): trailing blanks removed.
RECURSIVE RStrip(_)
RStrip(s) ==
    IF Len(s) > 0 /\ s[Len(s)] = " " THEN RStrip(SubSeq(s, 1, Len(s) - 1)) ELSE s

\* f"{n:3d}": right-justified in 3 columns.
Format3d(n) ==
    LET d == Decimal(n) IN IF Len(d) >= 3 THEN d ELSE Repeat(" ", 3 - Len(d)) \o d

\* f"{n:02d}" as strftime's %H, %M and %S print it.
Format02d(n) == <<Digit(n \div 10), Digit(n % 10)>>

\* f"{v:.1f}" of a percentage kept in tenths.
Format1f(t) == Decimal(t \div 10) \o <<".", Digit(t % 10)>>

(***************************************************************************)
(* create_graph, lines 107-175.                                            *)
(***************************************************************************)
\* lines 116-118: the title on row 0 (a title longer than the row would raise
\* IndexError; the titles of lines 277 and 280 are at most 14 characters).
PutTitle(graph, title) ==
    [r \in DOMAIN graph |-> [k \in DOMAIN graph[r] |->
        IF r = 0 /\ k < Len(title) THEN title[k + 1] ELSE graph[r][k]]]

\* lines 122-123: the label of scale row i.
YLabel(i) == Format3d(100 - ((i * 100) \div (graph_height - 1))) \o <<"%">>

\* lines 121-126: the percentage labels in columns 0-3 of rows 2..graph_height+1.
PutLabels(graph) ==
    [r \in DOMAIN graph |-> [k \in DOMAIN graph[r] |->
        IF r - 2 >= 0 /\ r - 2 < graph_height /\ k < 4
        THEN YLabel(r - 2)[k + 1]
        ELSE graph[r][k]]]

\* lines 129-130: the vertical axis in column 5.
PutVAxis(graph) ==
    [r \in DOMAIN graph |-> [k \in DOMAIN graph[r] |->
        IF r - 2 >= 0 /\ r - 2 < graph_height /\ k = 5
        THEN LightVertical
        ELSE graph[r][k]]]

\* lines 132-133: the horizontal axis on row graph_height + 1.
PutHAxis(graph) ==
    [r \in DOMAIN graph |-> [k \in DOMAIN graph[r] |->
        IF r = graph_height + 1 /\ k - 6 >= 0 /\ k - 6 < graph_width
        THEN LightHorizontal
        ELSE graph[r][k]]]

\* round() of n / d for n >= 0, d > 0: to the nearest integer, a tie to the even one.
RoundHalfEven(n, d) ==
    LET q == n \div d
        r == n % d
    IN  IF 2 * r > d \/ (2 * r = d /\ q % 2 = 1) THEN q + 1 ELSE q

\* The rounding variant of PlotRow.
PlotRowRounded(v) == graph_height - RoundHalfEven(v * (graph_height - 1), 1000) + 1

\* lines 140-149: graph_height - int((value / 100) * (graph_height - 1)) + 1.
PlotRow(v) == graph_height - ((v * (graph_height - 1)) \div 1000) + 1

\* The variant of PlotPair that marks the earlier column x1 as well.
PlotPairBothColumns(old, data, i, y, x) ==
    LET y1 == PlotRow(data[i])
        y2 == PlotRow(data[i + 1])
        x1 == i - 1 + 6
        x2 == i + 6
    IN  IF x = x1 /\ y = y1 /\ x1 < graph_width + 6 THEN BlackCircle
        ELSE IF x = x2 /\ y = y2 /\ x2 < graph_width + 6 THEN BlackCircle
        ELSE old

\* lines 138-172: what iteration i (the pair data[i-1], data[i]; data[i], data[i+1]
\* here, sequences counting from 1) leaves in cell (row y, column x), which held old.
\* The iteration writes in column x2 = i + 6 only.
PlotPair(old, data, i, y, x) ==
    LET y1 == PlotRow(data[i])
        y2 == PlotRow(data[i + 1])
        x2 == i + 6
        start_y == Min2(y1, y2)
        end_y == Max2(y1, y2)
    IN  IF x # x2 THEN old
        ELSE IF ~(0 <= y1 /\ y1 < graph_height + 2 /\ 0 <= y2 /\ y2 < graph_height + 2)
        THEN old
        ELSE IF Abs(y2 - y1) <= 1
        THEN IF x2 < graph_width + 6 /\ y = y2 THEN BlackCircle ELSE old
        ELSE IF start_y <= y /\ y <= end_y /\ y < graph_height + 2 /\ x2 < graph_width + 6
        THEN LightVertical ELSE old

\* lines 136-137: every consecutive pair, in order.  Iteration i computes the
\* columns x1 = i + 5 and x2 = i + 6, so the cell of column k is in reach of the
\* iterations k - 6 and k - 5 alone, which run in that order.
PlotData(graph, data) ==
    LET Touch(old, i, r, k) ==
            IF i >= 1 /\ i < Len(data) THEN PlotPair(old, data, i, r, k) ELSE old
    IN  [r \in DOMAIN graph |-> [k \in DOMAIN graph[r] |->
            Touch(Touch(graph[r][k], k - 6, r, k), k - 5, r, k)]]

\* lines 109-133: the grid before the data is plotted.
GraphFrame(title) ==
    PutHAxis(PutVAxis(PutLabels(PutTitle(
        BlankGrid(graph_width + 10, graph_height + 3), title))))

\* lines 107-173: the grid with everything on it.
GraphGrid(data, title) ==
    IF Len(data) > 1 THEN PlotData(GraphFrame(title), data) ELSE GraphFrame(title)

\* line 175: the rows joined and right-stripped.
create_graph(data, title) ==
    LET graph == GraphGrid(data, title)
    IN  [r \in 1..(graph_height + 3) |-> RStrip(JoinRow(graph[r - 1]))]

(***************************************************************************)
(* display_split_screen, lines 247-330.                                    *)
(***************************************************************************)
\* jst_time.strftime("%H:%M:%S") of <<hour, minute, second>>
TimeStr(t) == Format02d(t[1]) \o <<":">> \o Format02d(t[2]) \o <<":">> \o Format02d(t[3])

TimezoneStr == <<"J", "S", "T", " ", "(", "U", "T", "C", "+", "9", ")">>

\* The three section titles of lines 267, 284 and 287, without their colours.
ClockTitle == <<"U+3010", "U+30A2", "U+30CA", "U+30ED", "U+30B0", "U+6642", "U+8A08", "U+3011">>

CpuTitle == <<"U+3010", "C", "P", "U", "U+4F7F", "U+7528", "U+7387", "U+3011">>

MemoryTitle == <<"U+3010", "U+30E1", "U+30E2", "U+30EA", "U+4F7F", "U+7528", "U+7387", "U+3011">>

\* line 277: f"CPU: {cpu_percent:.1f}%"
CpuGraphTitle(v) == <<"C", "P", "U", ":", " ">> \o Format1f(v) \o <<"%">>

\* line 280: f"Memory: {memory_percent:.1f}%"
MemoryGraphTitle(v) == <<"M", "e", "m", "o", "r", "y", ":", " ">> \o Format1f(v) \o <<"%">>

\* line 271: clock_fixed_height
clock_fixed_height == 15

\* line 290: the clock panel's declared width (a local named clock_width in the source)
section_clock_width == 20

\* line 291: the graph panels' declared width (a local named graph_width in the source)
section_graph_width == 55

\* lines 308 and 318: the separator
Separator == <<" ", LightVertical, " ">>

\* lines 272-273: while len(section) < height: section.append("")
PadSection(section, height) ==
    IF Len(section) >= height THEN section
    ELSE section \o Repeat(<<>>, height - Len(section))

\* lines 256-273: the clock section.
ClockSection(t) ==
    LET clock_lines == create_clock_face(t[1], t[2], t[3])
                       \o << <<>>,
                             PURPLE \o TimeStr(t) \o RESET,
                             BRIGHT_PURPLE \o TimezoneStr \o RESET >>
    IN  PadSection(<<BRIGHT_PURPLE \o ClockTitle \o RESET>> \o clock_lines,
                   clock_fixed_height)

\* lines 276-278 and 284: the CPU section.
CpuSection(history, cpu_percent) ==
    <<BRIGHT_PURPLE \o CpuTitle \o RESET>> \o create_graph(history, CpuGraphTitle(cpu_percent))

\* lines 279-281 and 287: the memory section.
MemorySection(history, memory_percent) ==
    <<PURPLE \o MemoryTitle \o RESET>>
    \o create_graph(history, MemoryGraphTitle(memory_percent))

\* The variant of MaxLines that measures the clock section.
MaxLinesMeasured(clock_section, cpu_section, memory_section) ==
    Max2(Len(clock_section), Max2(Len(cpu_section), Len(memory_section)))

\* line 294: max(clock_fixed_height, len(cpu_section), len(memory_section))
MaxLines(clock_section, cpu_section, memory_section) ==
    Max2(clock_fixed_height, Max2(Len(cpu_section), Len(memory_section)))

\* lines 301-304, 311-314, 321-324: section[i] if i < len(section) else ""
RowOf(section, i) == IF i < Len(section) THEN section[i + 1] ELSE <<>>

\* The variant of ComposeRow that pads the memory panel like the other two.
ComposeRowPadded(clock_section, cpu_section, memory_section, i) ==
    LJust(RowOf(clock_section, i), section_clock_width) \o Separator
    \o LJust(RowOf(cpu_section, i), section_graph_width) \o Separator
    \o LJust(RowOf(memory_section, i), section_graph_width)

\* lines 298-328: row i of the frame.
ComposeRow(clock_section, cpu_section, memory_section, i) ==
    LJust(RowOf(clock_section, i), section_clock_width) \o Separator
    \o LJust(RowOf(cpu_section, i), section_graph_width) \o Separator
    \o RowOf(memory_section, i)

\* lines 296-330: everything the call prints, line by line.
Printed(clock_section, cpu_section, memory_section) ==
    <<BOLD>>
    \o [i \in 1..MaxLines(clock_section, cpu_section, memory_section) |->
           ComposeRow(clock_section, cpu_section, memory_section, i - 1)]
    \o <<RESET>>

\* The rows of the frame: what the loop of lines 297-328 printed.
Frame == SubSeq(stdout, 2, Len(stdout) - 1)

(***************************************************************************)
(* The state after JSTClock() and before any call.                         *)
(***************************************************************************)
NoTick ==
    [n |-> 0, jst_time |-> <<0, 0, 0>>, cpu_percent |-> 0, memory_percent |-> 0,
     clock_section |-> <<>>, cpu_section |-> <<>>, memory_section |-> <<>>]

NoLine ==
    [pc |-> "idle", x1 |-> 0, y1 |-> 0, x2 |-> 0, y2 |-> 0, char |-> " ",
     dx |-> 0, dy |-> 0, x |-> 0, y |-> 0, x_inc |-> 0, y_inc |-> 0, error |-> 0,
     visited |-> {}, raised |-> FALSE]

NoGraph == [pc |-> "idle", data |-> <<>>, title |-> <<>>, lines |-> <<>>]

Init ==
    /\ cpu_history = InitialHistory
    /\ memory_history = InitialHistory
    /\ readings = <<>>
    /\ tick = NoTick
    /\ stdout = <<>>
    /\ line = NoLine
    /\ clock = Dial
    /\ gcall = NoGraph

(***************************************************************************)
(* get_system_stats, lines 97-105, with psutil returning rd.               *)
(***************************************************************************)
GetSystemStats(rd) ==
    /\ Len(readings) < MaxCalls
    /\ BusyCount(Append(readings, rd)) <= MaxBusy
    /\ cpu_history' = DequeAppend(cpu_history, graph_width, rd[1])
    /\ memory_history' = DequeAppend(memory_history, graph_width, rd[2])
    /\ readings' = Append(readings, rd)
    /\ UNCHANGED <<tick, stdout, line, clock, gcall>>

NextStats == \E rd \in Readings : GetSystemStats(rd)

SpecStats == Init /\ [][NextStats]_vars

(***************************************************************************)
(* One tick: display_split_screen(jst_time), lines 247-330, with psutil    *)
(* returning rd.  The call samples first (line 250), then builds the three *)
(* sections from the histories as they are after the sample, then prints.  *)
(***************************************************************************)
Times == {<<0, 0, 0>>, <<10, 10, 30>>, <<23, 59, 59>>}

\* The variant of display_split_screen that builds the graphs before it samples.
display_split_screen_RenderFirst(cpu_h, mem_h, jst_time, rd) ==
    LET cpu_after == DequeAppend(cpu_h, graph_width, rd[1])
        mem_after == DequeAppend(mem_h, graph_width, rd[2])
        clock_section == ClockSection(jst_time)
        cpu_section == CpuSection(cpu_h, rd[1])
        memory_section == MemorySection(mem_h, rd[2])
    IN  [cpu_history |-> cpu_after, memory_history |-> mem_after,
         clock_section |-> clock_section, cpu_section |-> cpu_section,
         memory_section |-> memory_section,
         stdout |-> Printed(clock_section, cpu_section, memory_section)]

\* The call's effect: the histories after line 250, the sections of lines 266-287
\* and the lines printed by lines 296-330.
display_split_screen(cpu_h, mem_h, jst_time, rd) ==
    LET cpu_after == DequeAppend(cpu_h, graph_width, rd[1])
        mem_after == DequeAppend(mem_h, graph_width, rd[2])
        clock_section == ClockSection(jst_time)
        cpu_section == CpuSection(cpu_after, rd[1])
        memory_section == MemorySection(mem_after, rd[2])
    IN  [cpu_history |-> cpu_after, memory_history |-> mem_after,
         clock_section |-> clock_section, cpu_section |-> cpu_section,
         memory_section |-> memory_section,
         stdout |-> Printed(clock_section, cpu_section, memory_section)]

DisplaySplitScreen(jst_time, rd) ==
    /\ tick.n < MaxTicks
    /\ \E out \in {display_split_screen(cpu_history, memory_history, jst_time, rd)} :
           /\ cpu_history' = out.cpu_history
           /\ memory_history' = out.memory_history
           /\ tick' = [n |-> tick.n + 1, jst_time |-> jst_time,
                       cpu_percent |-> rd[1], memory_percent |-> rd[2],
                       clock_section |-> out.clock_section,
                       cpu_section |-> out.cpu_section,
                       memory_section |-> out.memory_section]
           /\ stdout' = out.stdout
    /\ readings' = Append(readings, rd)
    /\ UNCHANGED <<line, clock, gcall>>

Next == \E jst_time \in Times, rd \in Readings : DisplaySplitScreen(jst_time, rd)

Spec == Init /\ [][Next]_vars

(***************************************************************************)
(* One call of draw_line on the dial, a loop iteration at a time.          *)
(* line.visited collects the cells the loop has been at.                   *)
(***************************************************************************)
\* Coordinates of the grid and of the Margin cells around it.
Coords == (-Margin)..(clock_width - 1 + Margin)

\* Where a line starts: the corners, the centre, and the cells just outside.
StartCoords == {-Margin, 0, center_x, clock_width - 1, clock_width - 1 + Margin}

DrawLineCall(x1, y1, x2, y2, char) ==
    /\ line.pc = "idle"
    /\ line' = LineStart(x1, y1, x2, y2, char) @@ [visited |-> {}, raised |-> FALSE]
    /\ clock' = Dial
    /\ UNCHANGED <<cpu_history, memory_history, readings, tick, stdout, gcall>>

DrawLineStep ==
    /\ line.pc = "loop"
    /\ LET st == LineStamp(clock, line)
       IN  /\ clock' = st.grid
           /\ line' = IF st.raised
                      THEN [line EXCEPT !.pc = "raised", !.raised = TRUE,
                                        !.visited = @ \cup {<<line.x, line.y>>}]
                      ELSE [LineAdvance(line) EXCEPT
                                !.visited = @ \cup {<<line.x, line.y>>}]
    /\ UNCHANGED <<cpu_history, memory_history, readings, tick, stdout, gcall>>

NextLine ==
    \/ \E x1 \in StartCoords, y1 \in StartCoords, x2 \in Coords, y2 \in Coords :
           DrawLineCall(x1, y1, x2, y2, HeavyHorizontal)
    \/ DrawLineStep

SpecLine == Init /\ [][NextLine]_vars

\* The loop is sequential code: once entered, its next iteration runs.
SpecLineFair == SpecLine /\ WF_vars(DrawLineStep)

(***************************************************************************)
(* One call of create_graph.                                               *)
(***************************************************************************)
\* Percentages in tenths.
PercentValues == 0..1000

CoarseValues == {0, 46, 455, 500, 1000}

\* The histories given to create_graph: all-zero ones of every length up to
\* graph_width + MaxExtra, a pair of equal samples of every value, and the pairs
\* and triples of a few values.
GraphInputs ==
    {Repeat(0, n) : n \in 0..(graph_width + MaxExtra)}
    \cup {<<v, v>> : v \in PercentValues}
    \cup {<<v, w>> : v \in CoarseValues, w \in CoarseValues}
    \cup {<<u, v, w>> : u \in CoarseValues, v \in CoarseValues, w \in CoarseValues}

CreateGraph(data) ==
    /\ gcall.pc = "idle"
    /\ LET title == CpuGraphTitle(IF Len(data) > 0 THEN data[Len(data)] ELSE 0)
       IN  gcall' = [pc |-> "returned", data |-> data, title |-> title,
                     lines |-> create_graph(data, title)]
    /\ UNCHANGED <<cpu_history, memory_history, readings, tick, stdout, line, clock>>

NextGraph == \E data \in GraphInputs : CreateGraph(data)

SpecGraph == Init /\ [][NextGraph]_vars

(***************************************************************************)
(* Properties.                                                             *)
(***************************************************************************)
\* The character at row r, column k (both from 0) of a list of right-stripped lines.
CharAt(lines, r, k) ==
    IF r + 1 <= Len(lines) /\ k + 1 <= Len(lines[r + 1]) THEN lines[r + 1][k + 1] ELSE " "

IsZeroHistory(data) == \A i \in DOMAIN data : data[i] = 0

\* C1: after construction and any number of get_system_stats calls, cpu_history
\* and memory_history each hold exactly graph_width entries.
C1_HistoryLength ==
    /\ Len(cpu_history) = graph_width
    /\ Len(memory_history) = graph_width

\* More samples than the capacity have been appended, a busy one among them.
C1_Witness ==
    /\ Len(readings) > graph_width
    /\ BusyCount(readings) > 0
    /\ Len(cpu_history) = graph_width

\* C2: after k samples, a history holds, oldest first, graph_width - min(k, graph_width)
\* zeros and then the last min(k, graph_width) samples in arrival order.
C2_RollingContents ==
    LET k == Len(readings)
        m == Min2(k, graph_width)
    IN  /\ DOMAIN cpu_history = 1..graph_width
        /\ DOMAIN memory_history = 1..graph_width
        /\ \A i \in 1..graph_width :
               IF i <= graph_width - m
               THEN cpu_history[i] = 0 /\ memory_history[i] = 0
               ELSE /\ cpu_history[i] = readings[k - graph_width + i][1]
                    /\ memory_history[i] = readings[k - graph_width + i][2]

\* graph_width + 5 samples appended; one of the five evicted ones was a busy one,
\* and a busy one is still held.
C2_Witness ==
    /\ Len(readings) = graph_width + 5
    /\ \E i \in 1..5 : readings[i] # IdleReading
    /\ cpu_history = [i \in 1..graph_width |-> readings[i + 5][1]]

\* C3: the frame has as many rows as the tallest of the three sections, so that no
\* line of any section is left out.
C3_FrameKeepsEveryLine ==
    tick.n > 0 =>
        /\ Len(Frame) = MaxLinesMeasured(tick.clock_section, tick.cpu_section,
                                         tick.memory_section)
        /\ Len(tick.clock_section) <= Len(Frame)
        /\ Len(tick.cpu_section) <= Len(Frame)
        /\ Len(tick.memory_section) <= Len(Frame)

\* Row i (from 0) of every section fits its declared width.
RowFits(i) ==
    /\ Len(RowOf(tick.clock_section, i)) <= section_clock_width
    /\ Len(RowOf(tick.cpu_section, i)) <= section_graph_width
    /\ Len(RowOf(tick.memory_section, i)) <= section_graph_width

\* C4 as claimed: whenever the content fits, every row of the frame is
\* 20 + 3 + 55 + 3 + 55 characters long.
C4_RowsFullWidth ==
    tick.n > 0 =>
        \A i \in 1..Len(Frame) :
            RowFits(i - 1) =>
                Len(Frame[i]) = section_clock_width + 3 + section_graph_width + 3
                                + section_graph_width

\* C4 as the code has it: every row is the clock row blank-padded to 20 columns, the
\* separator, the CPU row blank-padded to 55 columns, the separator, and the memory
\* row as it is, without padding; so a row whose content fits is
\* 20 + 3 + 55 + 3 + len(memory row) characters long.
C4_RowLayout ==
    tick.n > 0 =>
        \A i \in 1..Len(Frame) :
            LET row == Frame[i]
                c == RowOf(tick.clock_section, i - 1)
                g == RowOf(tick.cpu_section, i - 1)
                m == RowOf(tick.memory_section, i - 1)
                cw == Max2(Len(c), section_clock_width)
                gw == Max2(Len(g), section_graph_width)
            IN  /\ Len(row) = cw + 3 + gw + 3 + Len(m)
                /\ RowFits(i - 1) =>
                       Len(row) = section_clock_width + 3 + section_graph_width + 3 + Len(m)
                /\ \A j \in 1..cw : row[j] = IF j <= Len(c) THEN c[j] ELSE " "
                /\ SubSeq(row, cw + 1, cw + 3) = <<" ", LightVertical, " ">>
                /\ \A j \in 1..gw : row[cw + 3 + j] = IF j <= Len(g) THEN g[j] ELSE " "
                /\ SubSeq(row, cw + 3 + gw + 1, cw + 3 + gw + 3) = <<" ", LightVertical, " ">>
                /\ SubSeq(row, cw + 3 + gw + 4, Len(row)) = m

\* A frame whose content fits, with a memory row shorter than its declared width
\* and a row past the end of the memory section.
C4_Witness ==
    /\ tick.n > 0
    /\ \A i \in 1..Len(Frame) : RowFits(i - 1)
    /\ \E i \in 1..Len(Frame) :
           /\ Len(RowOf(tick.memory_section, i - 1)) > 0
           /\ Len(Frame[i]) < section_clock_width + 3 + section_graph_width + 3
                              + section_graph_width

\* C5 as claimed, for the history the program keeps (N = graph_width): an all-zero
\* history of N samples puts the marker on the bottom plot row at each of the N plot
\* columns from column 6 on.
C5_ZeroHistoryEveryColumn ==
    (/\ gcall.pc = "returned"
     /\ IsZeroHistory(gcall.data)
     /\ Len(gcall.data) = graph_width) =>
        \A x \in 6..(6 + Len(gcall.data) - 1) :
            CharAt(gcall.lines, graph_height + 1, x) = BlackCircle

\* C5 as the code has it: an all-zero history of N samples puts the marker on the
\* bottom plot row at the columns 7..N+5 (the later column of each consecutive pair,
\* as far as the plot area goes) and nowhere else; column 6 keeps the axis glyph.
C5_ZeroHistoryLaterColumns ==
    (gcall.pc = "returned" /\ IsZeroHistory(gcall.data)) =>
        /\ \A y \in 0..(graph_height + 2), x \in 0..(graph_width + 9) :
               (CharAt(gcall.lines, y, x) = BlackCircle)
               <=> (/\ y = graph_height + 1
                    /\ 7 <= x
                    /\ x <= Min2(Len(gcall.data) + 5, graph_width + 5))
        /\ CharAt(gcall.lines, graph_height + 1, 6) = LightHorizontal

\* The graph of the program's own initial history: graph_width zeros.
C5_Witness ==
    /\ gcall.pc = "returned"
    /\ gcall.data = InitialHistory
    /\ CharAt(gcall.lines, graph_height + 1, graph_width + 5) = BlackCircle

\* C6: between two in-grid endpoints on one row or one column, draw_line stamps
\* exactly the cells of the segment, endpoints included, and changes no other cell.
C6_AxisAlignedSegment ==
    (/\ line.pc = "done"
     /\ InGrid(line.x1, line.y1)
     /\ InGrid(line.x2, line.y2)
     /\ (line.x1 = line.x2 \/ line.y1 = line.y2)) =>
        \A r \in 0..(clock_height - 1), k \in 0..(clock_width - 1) :
            LET onSegment ==
                    /\ Min2(line.x1, line.x2) <= k /\ k <= Max2(line.x1, line.x2)
                    /\ Min2(line.y1, line.y2) <= r /\ r <= Max2(line.y1, line.y2)
            IN  clock[r][k] = IF onSegment THEN line.char ELSE Dial[r][k]

\* The line (0,0)-(5,0) has been drawn.
C6_Witness ==
    /\ line.pc = "done"
    /\ <<line.x1, line.y1, line.x2, line.y2>> = <<0, 0, 5, 0>>
    /\ \A k \in 0..5 : clock[0][k] = line.char

\* C7: whatever the endpoints, draw_line changes only cells it has been at that lie
\* in the grid; no write raises, lands on another cell or changes the grid's shape.
C7_WritesStayInGrid ==
    /\ ~line.raised
    /\ line.pc # "raised"
    /\ DOMAIN clock = 0..(clock_height - 1)
    /\ \A r \in 0..(clock_height - 1) :
           /\ DOMAIN clock[r] = 0..(clock_width - 1)
           /\ \A k \in 0..(clock_width - 1) :
                  clock[r][k] # Dial[r][k] =>
                      /\ <<k, r>> \in line.visited
                      /\ clock[r][k] = line.char

\* A line that was at cells outside the grid on both sides and at cells inside it.
C7_Witness ==
    /\ line.pc = "done"
    /\ \E v \in line.visited : v[1] < 0 \/ v[2] < 0
    /\ \E v \in line.visited : v[1] >= clock_width \/ v[2] >= clock_height
    /\ \E v \in line.visited : InGrid(v[1], v[2]) /\ clock[v[2]][v[1]] = line.char

\* C8: the loop stays between its endpoints, ends at (x2, y2), and does end; a line
\* whose start is its end stamps that one cell and ends.
C8_ReachesEndpoint ==
    /\ [](line.pc = "loop" =>
            /\ Min2(line.x1, line.x2) <= line.x /\ line.x <= Max2(line.x1, line.x2)
            /\ Min2(line.y1, line.y2) <= line.y /\ line.y <= Max2(line.y1, line.y2))
    /\ [](line.pc = "done" =>
            /\ line.x = line.x2 /\ line.y = line.y2
            /\ <<line.x2, line.y2>> \in line.visited
            /\ (line.x1 = line.x2 /\ line.y1 = line.y2) =>
                   /\ line.visited = {<<line.x1, line.y1>>}
                   /\ InGrid(line.x1, line.y1) => clock[line.y1][line.x1] = line.char)
    /\ ((line.pc = "loop") ~> (line.pc = "done"))

\* A line from a cell of the grid to itself has ended, with its cell stamped.
C8_Witness ==
    /\ line.pc = "done"
    /\ line.x1 = line.x2 /\ line.y1 = line.y2
    /\ InGrid(line.x1, line.y1)
    /\ clock[line.y1][line.x1] = line.char

\* C9: a tick appends exactly one sample to each history, and the graphs it draws
\* are those of the histories after the append, the tick's sample being their last
\* entry.
C9_SampleThenRender ==
    [][tick'.n # tick.n =>
          /\ tick'.n = tick.n + 1
          /\ readings' = Append(readings, <<tick'.cpu_percent, tick'.memory_percent>>)
          /\ cpu_history' = Append(Tail(cpu_history), tick'.cpu_percent)
          /\ memory_history' = Append(Tail(memory_history), tick'.memory_percent)
          /\ Tail(tick'.cpu_section)
                 = create_graph(cpu_history', CpuGraphTitle(tick'.cpu_percent))
          /\ Tail(tick'.memory_section)
                 = create_graph(memory_history', MemoryGraphTitle(tick'.memory_percent))
          /\ \E y \in 2..(graph_height + 1) :
                 CharAt(Tail(tick'.cpu_section), y, graph_width + 5)
                     \in {BlackCircle, LightVertical}
      ]_vars

\* After a second tick whose CPU sample differs from the one before it.
C9_Witness ==
    /\ tick.n = 2
    /\ cpu_history[graph_width] = tick.cpu_percent
    /\ cpu_history[graph_width - 1] # cpu_history[graph_width]
    /\ Len(stdout) > 2

\* C10 as claimed: the row of a sample v is
\* graph_height - round((v / 100) * (graph_height - 1)) + 1.
C10_RowRounded ==
    (gcall.pc = "returned" /\ Len(gcall.data) = 2 /\ gcall.data[1] = gcall.data[2]) =>
        CharAt(gcall.lines,
               graph_height - RoundHalfEven(gcall.data[2] * (graph_height - 1), 1000) + 1,
               7) = BlackCircle

\* C10 as the code has it: the row of a sample v is
\* graph_height - floor((v / 100) * (graph_height - 1)) + 1, the scaled value being
\* truncated, not rounded.  Two equal samples put their marker in column 7 on that
\* row and on no other.
C10_RowTruncated ==
    (gcall.pc = "returned" /\ Len(gcall.data) = 2 /\ gcall.data[1] = gcall.data[2]) =>
        \A y \in 0..(graph_height + 2) :
            (CharAt(gcall.lines, y, 7) = BlackCircle)
            <=> (y = graph_height - ((gcall.data[2] * (graph_height - 1)) \div 1000) + 1)

\* The graph of two samples of 50.0 percent, whose scaled value 5.5 lies half-way.
C10_Witness ==
    /\ gcall.pc = "returned"
    /\ gcall.data = <<500, 500>>
    /\ CharAt(gcall.lines, graph_height - 5 + 1, 7) = BlackCircle

====
